---- MODULE Spec2Model ----
(***************************************************************************)
(* Receipt pipeline of src/src/main.py, src/src/gpt.py, src/src/file_io.py *)
(* as a state machine: one run of main() (list the directory, extract and  *)
(* normalise every file, then the requested outputs), plus the pure        *)
(* functions parse_date_yyyy_mm_dd and normalize_amount under their own    *)
(* specifications.                                                         *)
(*                                                                         *)
(* Python strings are sequences of one-character strings.  Python values   *)
(* (what json.loads can put in a field) are records [t, n, s]: t the type, *)
(* n the number (an int's value; a float's value in hundredths; a bool as  *)
(* 0/1), s the text of a str.  A dict is a function from its keys.         *)
(***************************************************************************)
EXTENDS Integers, Sequences, FiniteSets, TLC

VARIABLES
    pc,       \* where the run is: "extract", "print", "expenses", "plot", "done", "failed"; "call"/"ret" for a pure call
    args,     \* argparse namespace of main: [print, expenses, plot]
    listing,  \* what list_files yields, in os.listdir's order: a sequence of filenames
    sent,     \* the calls made to the service, in order: [name, kind] (the file sent, the reply's kind)
    results,  \* process_directory's local dict: a sequence of <<filename, record>> in insertion order
    data,     \* main's `data`: the dict process_directory returned (<<>> before it returns)
    rows,     \* main's `rows`: what filter_expenses returned (<<>> before)
    out,      \* stdout: a sequence of output events
    chart,    \* the chart file: <<>> when not written, else the sequence of <<label, value>> plotted
    err,      \* the uncaught exception that ended the run, "none" when there is none
    arg,      \* argument of the pure function under check
    ret       \* its return value

vars == <<pc, args, listing, sent, results, data, rows, out, chart, err, arg, ret>>

(***************************************************************************)
(* Bounds of the model.                                                    *)
(***************************************************************************)
MaxFiles == 2

(***************************************************************************)
(* Strings.                                                                *)
(***************************************************************************)
\* The characters the model uses, in code-point order; "EUR" stands for
\* the one character U+20AC, which sorts after every ASCII character.
Ascii ==
    << " ", "$", "+", ",", "-", ".", "/",
       "0", "1", "2", "3", "4", "5", "6", "7", "8", "9",
       "M", "N", "O", "W", "_", "a", "b", "c", "d", "e", "h", "l", "n", "o",
       "r", "s", "t", "v", "x", "EUR" >>

Ord(c) == CHOOSE i \in 1..Len(Ascii) : Ascii[i] = c

Digits == <<"0", "1", "2", "3", "4", "5", "6", "7", "8", "9">>

IsDigit(c) == \E i \in 1..10 : Digits[i] = c

DigitVal(c) == (CHOOSE i \in 1..10 : Digits[i] = c) - 1

IsSpace(c) == c = " "

\* str.__lt__: lexicographic by code point, a proper prefix first.
RECURSIVE StrLT(_, _)
StrLT(a, b) ==
    IF b = <<>> THEN FALSE
    ELSE IF a = <<>> THEN TRUE
    ELSE IF Ord(Head(a)) # Ord(Head(b)) THEN Ord(Head(a)) < Ord(Head(b))
    ELSE StrLT(Tail(a), Tail(b))

RECURSIVE LStrip(_)
LStrip(s) == IF s # <<>> /\ IsSpace(Head(s)) THEN LStrip(Tail(s)) ELSE s

RECURSIVE RStrip(_)
RStrip(s) ==
    IF s # <<>> /\ IsSpace(s[Len(s)]) THEN RStrip(SubSeq(s, 1, Len(s) - 1)) ELSE s

\* str.strip()
Strip(s) == RStrip(LStrip(s))

\* str.split(sep) for a one-character sep: always at least one part.
RECURSIVE Split(_, _)
Split(s, sep) ==
    IF \A i \in 1..Len(s) : s[i] # sep THEN <<s>>
    ELSE LET k == CHOOSE i \in 1..Len(s) :
                      s[i] = sep /\ \A j \in 1..(i - 1) : s[j] # sep
         IN <<SubSeq(s, 1, k - 1)>> \o Split(SubSeq(s, k + 1, Len(s)), sep)

RECURSIVE DigitsVal(_)
DigitsVal(s) ==
    IF s = <<>> THEN 0 ELSE 10 * DigitsVal(SubSeq(s, 1, Len(s) - 1)) + DigitVal(s[Len(s)])

\* Digit groups joined by single underscores ("1_000"), as int() reads them.
IsDigitRun(s) ==
    /\ s # <<>>
    /\ \A i \in 1..Len(s) : IsDigit(s[i]) \/ s[i] = "_"
    /\ IsDigit(s[1]) /\ IsDigit(s[Len(s)])
    /\ \A i \in 1..(Len(s) - 1) : ~(s[i] = "_" /\ s[i + 1] = "_")

DropUnderscores(s) == SelectSeq(s, LAMBDA c : c # "_")

NoNum == [ok |-> FALSE, v |-> 0]

\* int(str): surrounding whitespace, an optional sign, decimal digits.
ParseInt(s) ==
    LET t == Strip(s)
        signed == t # <<>> /\ Head(t) \in {"+", "-"}
        body == IF signed THEN Tail(t) ELSE t
    IN IF IsDigitRun(body)
       THEN [ok |-> TRUE,
             v |-> IF signed /\ Head(t) = "-"
                   THEN 0 - DigitsVal(DropUnderscores(body))
                   ELSE DigitsVal(DropUnderscores(body))]
       ELSE NoNum

(***************************************************************************)
(* datetime.date as main.py uses it.                                       *)
(***************************************************************************)
IsLeap(y) == (y % 4 = 0 /\ y % 100 # 0) \/ y % 400 = 0

DaysInMonth(y, m) ==
    IF m = 2 THEN (IF IsLeap(y) THEN 29 ELSE 28)
    ELSE IF m \in {4, 6, 9, 11} THEN 30 ELSE 31

NoDate == [ok |-> FALSE, y |-> 0, m |-> 0, d |-> 0]

\* MkDate with every month taken to have 31 days
MkDate_any31(y, m, d) ==
    IF y >= 1 /\ y <= 9999 /\ m >= 1 /\ m <= 12 /\ d >= 1 /\ d <= 31
    THEN [ok |-> TRUE, y |-> y, m |-> m, d |-> d]
    ELSE NoDate

\* date(y, m, d): a date, or ValueError (NoDate) outside the calendar.
MkDate(y, m, d) ==
    IF /\ y >= 1 /\ y <= 9999
       /\ m >= 1 /\ m <= 12
       /\ d >= 1 /\ d <= DaysInMonth(y, m)
    THEN [ok |-> TRUE, y |-> y, m |-> m, d |-> d]
    ELSE NoDate

\* date.__le__
DateLE(a, b) ==
    \/ a.y < b.y
    \/ a.y = b.y /\ a.m < b.m
    \/ a.y = b.y /\ a.m = b.m /\ a.d <= b.d

\* "%04d" and "%02d"
DigitChar(n) == Digits[(n % 10) + 1]

Pad4(n) ==
    << DigitChar(n \div 1000), DigitChar(n \div 100), DigitChar(n \div 10), DigitChar(n) >>

Pad2(n) == << DigitChar(n \div 10), DigitChar(n) >>

\* isoformat without the zero padding ("%d-%d-%d")
RECURSIVE Unpadded(_)
Unpadded(n) == IF n < 10 THEN <<DigitChar(n)>> ELSE Unpadded(n \div 10) \o <<DigitChar(n)>>

isoformat_unpadded(d) == Unpadded(d.y) \o <<"-">> \o Unpadded(d.m) \o <<"-">> \o Unpadded(d.d)

\* date.isoformat()
isoformat(d) == Pad4(d.y) \o <<"-">> \o Pad2(d.m) \o <<"-">> \o Pad2(d.d)

(***************************************************************************)
(* Python values.                                                          *)
(***************************************************************************)
PyNone == [t |-> "none", n |-> 0, s |-> <<>>]
PyBool(b) == [t |-> "bool", n |-> IF b THEN 1 ELSE 0, s |-> <<>>]
PyInt(n) == [t |-> "int", n |-> n, s |-> <<>>]
PyFloat(c) == [t |-> "float", n |-> c, s |-> <<>>]    \* c in hundredths
PyStr(s) == [t |-> "str", n |-> 0, s |-> s]
PyList == [t |-> "list", n |-> 0, s |-> <<>>]         \* a JSON array or object in a field

\* isinstance(v, str)
IsStr(v) == v.t = "str"

\* isinstance(v, (int, float)): bool is a subclass of int
IsIntOrFloat(v) == v.t \in {"int", "float", "bool"}

\* float(v) of an int, float or bool, in hundredths
ToFloat(v) == IF v.t = "float" THEN v.n ELSE 100 * v.n

\* dict.get(k): None for a missing key
Get(rec, k) == IF k \in DOMAIN rec THEN rec[k] ELSE PyNone

\* d[k] = v on a dict
SetItem(rec, k, v) == [x \in DOMAIN rec \cup {k} |-> IF x = k THEN v ELSE rec[x]]

\* The hundredths a fraction's digits stand for; the model's texts carry at
\* most two fractional digits.
FracVal(f) ==
    IF f = <<>> THEN 0
    ELSE IF Len(f) = 1 THEN 10 * DigitVal(f[1])
    ELSE 10 * DigitVal(f[1]) + DigitVal(f[2])

\* float(str) on decimal texts: surrounding whitespace, an optional sign,
\* digits with an optional point ("12", "12.", "12.50", ".5"); ValueError
\* (NoNum) otherwise.  Exponents, "inf" and "nan" are not among the texts
\* of the model.
ParseFloat(s) ==
    LET t == Strip(s)
        signed == t # <<>> /\ Head(t) \in {"+", "-"}
        body == IF signed THEN Tail(t) ELSE t
        parts == Split(body, ".")
        ip == parts[1]
        fp == IF Len(parts) = 2 THEN DropUnderscores(parts[2]) ELSE <<>>
        wellformed ==
            /\ Len(parts) <= 2
            /\ ip = <<>> \/ IsDigitRun(ip)
            /\ Len(parts) = 2 => (parts[2] = <<>> \/ IsDigitRun(parts[2]))
            /\ ip # <<>> \/ fp # <<>>
        mag == 100 * DigitsVal(DropUnderscores(ip)) + FracVal(fp)
    IN IF wellformed
       THEN [ok |-> TRUE, v |-> IF signed /\ Head(t) = "-" THEN 0 - mag ELSE mag]
       ELSE NoNum

(***************************************************************************)
(* main.py: normalize_amount and parse_date_yyyy_mm_dd.                    *)
(***************************************************************************)
RECURSIVE DropDollars(_)
DropDollars(c) == IF c # <<>> /\ Head(c) = "$" THEN DropDollars(Tail(c)) ELSE c

\* cleaned with every leading "$" dropped (lstrip("$") for [1:])
cleaned_lstrip(amount) == Strip(DropDollars(Strip(amount.s)))

\* The text float() is given: stripped, one leading "$" dropped, stripped.
cleaned(amount) ==
    LET c == Strip(amount.s)
    IN IF c # <<>> /\ Head(c) = "$" THEN Strip(Tail(c)) ELSE c

normalize_amount(rec) ==
    LET amount == Get(rec, "amount")
    IN IF amount = PyNone THEN rec
       ELSE IF IsStr(amount) /\ ParseFloat(cleaned(amount)).ok
            THEN SetItem(rec, "amount", PyFloat(ParseFloat(cleaned(amount)).v))
            ELSE rec

parse_date_yyyy_mm_dd(v) ==
    IF ~IsStr(v) THEN NoDate
    ELSE LET parts == Split(Strip(v.s), "-")
         IN IF Len(parts) # 3 THEN NoDate
            ELSE LET y == ParseInt(parts[1])
                     m == ParseInt(parts[2])
                     d == ParseInt(parts[3])
                 IN IF y.ok /\ m.ok /\ d.ok THEN MkDate(y.v, m.v, d.v) ELSE NoDate

(***************************************************************************)
(* Insertion-ordered dicts keyed by filename or label: sequences of        *)
(* <<key, value>> with distinct keys.                                      *)
(***************************************************************************)
HasKey(d, k) == \E i \in 1..Len(d) : d[i][1] = k

\* d[k] = v: in place for a key already there, appended otherwise
DictSet(d, k, v) ==
    IF HasKey(d, k)
    THEN [i \in 1..Len(d) |-> IF d[i][1] = k THEN <<k, v>> ELSE d[i]]
    ELSE Append(d, <<k, v>>)

\* defaultdict(float)[k]
DictGet0(d, k) ==
    IF HasKey(d, k) THEN d[CHOOSE i \in 1..Len(d) : d[i][1] = k][2] ELSE 0

(***************************************************************************)
(* gpt.py: extract_receipt_info.  A reply of the service is                *)
(* [kind, isdict, value]: kind "unreachable" or "rejected" (the client     *)
(* raises), "badjson" (content json.loads rejects) or "json"; a JSON value *)
(* is a dict (isdict, value) or anything else.  Nothing is validated.      *)
(***************************************************************************)
extract_receipt_info(reply) ==
    IF reply.kind = "unreachable"
    THEN [raised |-> "APIConnectionError", isdict |-> FALSE, value |-> <<>>]
    ELSE IF reply.kind = "rejected"
    THEN [raised |-> "APIStatusError", isdict |-> FALSE, value |-> <<>>]
    ELSE IF reply.kind = "badjson"
    THEN [raised |-> "JSONDecodeError", isdict |-> FALSE, value |-> <<>>]
    ELSE [raised |-> "none", isdict |-> reply.isdict, value |-> reply.value]

(***************************************************************************)
(* main.py: filter_expenses, print_expenses_report, plot_by_category.      *)
(***************************************************************************)
\* A row of filter_expenses: (fname, d.isoformat(), float(amt), vendor, category)
Row(fname, d, rec) ==
    << fname, isoformat(d), ToFloat(Get(rec, "amount")),
       Get(rec, "vendor"), Get(rec, "category") >>

\* The loop of filter_expenses over data_by_file.items()
RECURSIVE KeptRows(_, _, _)
KeptRows(items, start_d, end_d) ==
    IF items = <<>> THEN <<>>
    ELSE LET fname == Head(items)[1]
             rec == Head(items)[2]
             d == parse_date_yyyy_mm_dd(Get(rec, "date"))
             amt == Get(rec, "amount")
             rest == KeptRows(Tail(items), start_d, end_d)
         IN IF ~d.ok THEN rest
            ELSE IF ~IsIntOrFloat(amt) THEN rest
            ELSE IF DateLE(start_d, d) /\ DateLE(d, end_d)
                 THEN <<Row(fname, d, rec)>> \o rest
                 ELSE rest

\* (r[1], r[0]) < (q[1], q[0]) on tuples of strings
KeyLT(r, q) == StrLT(r[2], q[2]) \/ (r[2] = q[2] /\ StrLT(r[1], q[1]))

\* list.sort(key=...): stable, ascending
RECURSIVE InsertRow(_, _)
InsertRow(r, sorted) ==
    IF sorted = <<>> THEN <<r>>
    ELSE IF KeyLT(r, Head(sorted)) THEN <<r>> \o sorted
    ELSE <<Head(sorted)>> \o InsertRow(r, Tail(sorted))

RECURSIVE SortRows(_)
SortRows(rs) ==
    IF rs = <<>> THEN <<>>
    ELSE InsertRow(rs[Len(rs)], SortRows(SubSeq(rs, 1, Len(rs) - 1)))

\* filter_expenses raising only when both dates are bad (and for or)
filter_expenses_both(data_by_file, start_s, end_s) ==
    LET start_d == parse_date_yyyy_mm_dd(PyStr(start_s))
        end_d == parse_date_yyyy_mm_dd(PyStr(end_s))
    IN IF ~start_d.ok /\ ~end_d.ok
       THEN [raised |-> "ValueError: dates", rows |-> <<>>]
       ELSE [raised |-> "none", rows |-> SortRows(KeptRows(data_by_file, start_d, end_d))]

filter_expenses(data_by_file, start_s, end_s) ==
    LET start_d == parse_date_yyyy_mm_dd(PyStr(start_s))
        end_d == parse_date_yyyy_mm_dd(PyStr(end_s))
    IN IF ~start_d.ok \/ ~end_d.ok
       THEN [raised |-> "ValueError: dates", rows |-> <<>>]
       ELSE [raised |-> "none", rows |-> SortRows(KeptRows(data_by_file, start_d, end_d))]

RECURSIVE SumAmounts(_)
SumAmounts(rs) == IF rs = <<>> THEN 0 ELSE Head(rs)[3] + SumAmounts(Tail(rs))

\* f"{c:16}" of a row's category: TypeError for a list or dict
Formats(row) == row[5].t # "list"

\* The rows print_expenses_report prints before a row it cannot format
RECURSIVE Printable(_)
Printable(rs) ==
    IF rs = <<>> \/ ~Formats(Head(rs)) THEN <<>>
    ELSE <<Head(rs)>> \o Printable(Tail(rs))

\* What print_expenses_report writes: the ledger with its total, or the
\* lines up to the row whose category raises TypeError.
print_expenses_report(rs) ==
    IF Printable(rs) = rs
    THEN [raised |-> "none",
          event |-> [kind |-> "ledger", body |-> rs, total |-> SumAmounts(rs)]]
    ELSE [raised |-> "TypeError",
          event |-> [kind |-> "ledger_cut", body |-> Printable(rs), total |-> 0]]

\* The loop of plot_by_category over data_by_file.values()
RECURSIVE CategorySums(_)
CategorySums(items) ==
    IF items = <<>> THEN <<>>
    ELSE LET rec == items[Len(items)][2]
             cat == Get(rec, "category")
             amt == Get(rec, "amount")
             sums == CategorySums(SubSeq(items, 1, Len(items) - 1))
         IN IF ~IsIntOrFloat(amt) THEN sums
            ELSE IF ~IsStr(cat) \/ Strip(cat.s) = <<>> THEN sums
            ELSE DictSet(sums, Strip(cat.s), DictGet0(sums, Strip(cat.s)) + ToFloat(amt))

plot_by_category(data_by_file) ==
    LET sums == CategorySums(data_by_file)
    IN IF sums = <<>>
       THEN [raised |-> "ValueError: plot", saved |-> <<>>]
       ELSE [raised |-> "none", saved |-> sums]

(***************************************************************************)
(* Texts and values the run is fed.                                        *)
(***************************************************************************)
T_2026_01_19 == <<"2", "0", "2", "6", "-", "0", "1", "-", "1", "9">>
T_01_19_2026 == <<"0", "1", "/", "1", "9", "/", "2", "0", "2", "6">>
T_Wed_Nov_06_2019 ==
    <<"W", "e", "d", ",", " ", "N", "o", "v", " ", "0", "6", ",", " ", "2", "0", "1", "9">>
T_not_a_date == <<"n", "o", "t", "-", "a", "-", "d", "a", "t", "e">>
T_2025_12_31 == <<"2", "0", "2", "5", "-", "1", "2", "-", "3", "1">>
T_2026_01_01 == <<"2", "0", "2", "6", "-", "0", "1", "-", "0", "1">>
T_2026_1_5 == <<"2", "0", "2", "6", "-", "1", "-", "5">>
T_2026_01_05 == <<"2", "0", "2", "6", "-", "0", "1", "-", "0", "5">>
T_2026_02_30 == <<"2", "0", "2", "6", "-", "0", "2", "-", "3", "0">>
T_2026_01_15 == <<"2", "0", "2", "6", "-", "0", "1", "-", "1", "5">>
T_2026_01_31 == <<"2", "0", "2", "6", "-", "0", "1", "-", "3", "1">>
T_2026_02_01 == <<"2", "0", "2", "6", "-", "0", "2", "-", "0", "1">>
T_usd_12_50 == <<"$", "1", "2", ".", "5", "0">>
T_abc == <<"a", "b", "c">>
T_Meals == <<"M", "e", "a", "l", "s">>
T_Meals_padded == <<" ", "M", "e", "a", "l", "s", " ">>
T_Other == <<"O", "t", "h", "e", "r">>
T_blank == <<" ">>
T_x == <<"x">>

\* Filenames of the directory
NameSet == { <<"a">>, <<"a", "b">>, <<"b">> }

Injective(l) == \A i, j \in 1..Len(l) : l[i] = l[j] => i = j

\* What os.listdir may give: distinct names in any order
Listings == { l \in UNION { [1..k -> NameSet] : k \in 0..MaxFiles } : Injective(l) }

Dict4(d, a, v, c) == [date |-> d, amount |-> a, vendor |-> v, category |-> c]

\* JSON objects the service answers with in a run of main
ReplyDicts ==
    { Dict4(PyStr(T_2026_01_15), PyStr(T_usd_12_50), PyStr(T_x), PyStr(T_Meals)),
      Dict4(PyStr(T_2026_01_31), PyBool(TRUE), PyNone, PyStr(T_Other)),
      Dict4(PyStr(T_2026_01_01), PyInt(20), PyStr(T_x), PyList),
      [date |-> PyStr(T_2026_01_15)],
      [date |-> PyStr(T_2025_12_31), amount |-> PyInt(20), vendor |-> PyStr(T_x),
       category |-> PyStr(T_Other), tax |-> PyInt(2)] }

Replies ==
    { [kind |-> k, isdict |-> FALSE, value |-> <<>>] :
          k \in {"unreachable", "rejected", "badjson", "json"} }
    \cup { [kind |-> "json", isdict |-> TRUE, value |-> d] : d \in ReplyDicts }

\* --expenses START END as typed; <<>> when the option is not given
ExpensesArgs ==
    { <<>>,
      <<T_2026_01_01, T_2026_01_31>>,
      <<T_2026_01_01, T_not_a_date>> }

ArgsSet == [print : BOOLEAN, expenses : ExpensesArgs, plot : BOOLEAN]

(***************************************************************************)
(* One run of main().                                                      *)
(***************************************************************************)
Init ==
    /\ pc = "extract"
    /\ args \in ArgsSet
    /\ listing \in Listings
    /\ sent = <<>>
    /\ results = <<>>
    /\ data = <<>>
    /\ rows = <<>>
    /\ out = <<>>
    /\ chart = <<>>
    /\ err = "none"
    /\ arg = <<>>
    /\ ret = <<>>

\* An uncaught exception: the traceback ends the process, locals are gone
Raise(e) ==
    /\ pc' = "failed"
    /\ err' = e
    /\ results' = <<>>

\* Extract with the call wrapped in try/except: a file whose extraction
\* fails is skipped and the loop goes on
Extract_skipping ==
    /\ pc = "extract"
    /\ Len(sent) < Len(listing)
    /\ \E reply \in Replies :
          LET name == listing[Len(sent) + 1]
              got == extract_receipt_info(reply)
          IN /\ sent' = Append(sent, [name |-> name, kind |-> reply.kind])
             /\ results' = IF got.raised = "none" /\ got.isdict
                           THEN DictSet(results, name, normalize_amount(got.value))
                           ELSE results
             /\ UNCHANGED <<pc, err>>
    /\ UNCHANGED <<args, listing, data, rows, out, chart, arg, ret>>

\* One iteration of process_directory's loop: encode the next file, call the
\* service, normalise, store.
Extract ==
    /\ pc = "extract"
    /\ Len(sent) < Len(listing)
    /\ \E reply \in Replies :
          LET name == listing[Len(sent) + 1]
              got == extract_receipt_info(reply)
          IN /\ sent' = Append(sent, [name |-> name, kind |-> reply.kind])
             /\ IF got.raised # "none" THEN Raise(got.raised)
                ELSE IF ~got.isdict THEN Raise("AttributeError")
                ELSE /\ results' = DictSet(results, name, normalize_amount(got.value))
                     /\ UNCHANGED <<pc, err>>
    /\ UNCHANGED <<args, listing, data, rows, out, chart, arg, ret>>

\* process_directory returns: data = process_directory(args.dirpath)
Return ==
    /\ pc = "extract"
    /\ Len(sent) = Len(listing)
    /\ data' = results
    /\ pc' = "print"
    /\ UNCHANGED <<args, listing, sent, results, rows, out, chart, err, arg, ret>>

\* if args.print: print(json.dumps(data, indent=2))
PrintStage ==
    /\ pc = "print"
    /\ out' = IF args.print
              THEN Append(out, [kind |-> "json", body |-> data, total |-> 0])
              ELSE out
    /\ pc' = "expenses"
    /\ UNCHANGED <<args, listing, sent, results, data, rows, chart, err, arg, ret>>

\* ExpensesStage with the ValueError of filter_expenses caught: the run goes
\* on to the next stage
ExpensesStage_caught ==
    /\ pc = "expenses"
    /\ IF args.expenses = <<>>
       THEN /\ pc' = "plot"
            /\ UNCHANGED <<rows, out, err, results>>
       ELSE LET got == filter_expenses(data, args.expenses[1], args.expenses[2])
                rep == print_expenses_report(got.rows)
            IN IF got.raised # "none"
               THEN pc' = "plot" /\ UNCHANGED <<rows, out, err, results>>
               ELSE /\ rows' = got.rows
                    /\ out' = Append(out, rep.event)
                    /\ IF rep.raised # "none" THEN Raise(rep.raised)
                       ELSE pc' = "plot" /\ UNCHANGED <<err, results>>
    /\ UNCHANGED <<args, listing, sent, data, chart, arg, ret>>

\* if args.expenses: filter_expenses, then print_expenses_report
ExpensesStage ==
    /\ pc = "expenses"
    /\ IF args.expenses = <<>>
       THEN /\ pc' = "plot"
            /\ UNCHANGED <<rows, out, err, results>>
       ELSE LET got == filter_expenses(data, args.expenses[1], args.expenses[2])
                rep == print_expenses_report(got.rows)
            IN IF got.raised # "none"
               THEN Raise(got.raised) /\ UNCHANGED <<rows, out>>
               ELSE /\ rows' = got.rows
                    /\ out' = Append(out, rep.event)
                    /\ IF rep.raised # "none" THEN Raise(rep.raised)
                       ELSE pc' = "plot" /\ UNCHANGED <<err, results>>
    /\ UNCHANGED <<args, listing, sent, data, chart, arg, ret>>

\* if args.plot: plot_by_category, then print "Saved plot to: ..."
PlotStage ==
    /\ pc = "plot"
    /\ IF ~args.plot
       THEN /\ pc' = "done"
            /\ UNCHANGED <<chart, out, err, results>>
       ELSE LET got == plot_by_category(data)
            IN IF got.raised # "none"
               THEN Raise(got.raised) /\ UNCHANGED <<chart, out>>
               ELSE /\ chart' = got.saved
                    /\ out' = Append(out, [kind |-> "saved", body |-> <<>>, total |-> 0])
                    /\ pc' = "done"
                    /\ UNCHANGED <<err, results>>
    /\ UNCHANGED <<args, listing, sent, data, rows, arg, ret>>

Next == Extract \/ Return \/ PrintStage \/ ExpensesStage \/ PlotStage

Spec == Init /\ [][Next]_vars

(***************************************************************************)
(* parse_date_yyyy_mm_dd on its own: Init draws the argument, the action   *)
(* applies the function.  The texts are built from literal parts, each     *)
(* listed with the integer a reader takes it for (ok FALSE: no integer).   *)
(***************************************************************************)
Lit(text, ok, val) == [text |-> text, ok |-> ok, val |-> val]

YearLits ==
    { Lit(<<"2", "0", "2", "6">>, TRUE, 2026),
      Lit(<<"2", "0", "2", "4">>, TRUE, 2024),
      Lit(<<"1", "9", "0", "0">>, TRUE, 1900),
      Lit(<<"0", "9", "9", "9">>, TRUE, 999),
      Lit(<<"1", "0", "0", "0", "0">>, TRUE, 10000),
      Lit(<<"0">>, TRUE, 0),
      Lit(<<"+", "2", "0", "2", "6">>, TRUE, 2026),
      Lit(<<" ", "2", "0", "2", "6">>, TRUE, 2026),
      Lit(<<"2", "0", "_", "2", "6">>, TRUE, 2026),
      Lit(<<"n", "o", "t">>, FALSE, 0),
      Lit(<<>>, FALSE, 0) }

MonthLits ==
    { Lit(<<"0", "1">>, TRUE, 1),
      Lit(<<"2">>, TRUE, 2),
      Lit(<<"0", "4">>, TRUE, 4),
      Lit(<<"1", "2">>, TRUE, 12),
      Lit(<<"1", "3">>, TRUE, 13),
      Lit(<<"0", "0">>, TRUE, 0),
      Lit(<<" ", "2", " ">>, TRUE, 2),
      Lit(<<"N", "o", "v">>, FALSE, 0) }

DayLits ==
    { Lit(<<"1", "9">>, TRUE, 19),
      Lit(<<"1">>, TRUE, 1),
      Lit(<<"2", "8">>, TRUE, 28),
      Lit(<<"2", "9">>, TRUE, 29),
      Lit(<<"3", "0">>, TRUE, 30),
      Lit(<<"3", "1">>, TRUE, 31),
      Lit(<<"3", "2">>, TRUE, 32),
      Lit(<<"0", "0">>, TRUE, 0),
      Lit(<<"3", "1", " ">>, TRUE, 31),
      Lit(<<"d", "a", "t", "e">>, FALSE, 0) }

Seps == {"-", "/"}

Joined(y, s1, m, s2, d) == y.text \o <<s1>> \o m.text \o <<s2>> \o d.text

DateArgs ==
    { PyStr(Joined(y, s1, m, s2, d)) :
          y \in YearLits, s1 \in Seps, m \in MonthLits, s2 \in Seps, d \in DayLits }
    \cup { PyStr(T_2026_01_19), PyStr(T_01_19_2026), PyStr(T_Wed_Nov_06_2019),
           PyStr(T_not_a_date), PyStr(<<>>), PyNone, PyInt(20260119) }

\* Every variable of the run of main, for a specification that does not run it
Idle ==
    /\ args = [print |-> FALSE, expenses |-> <<>>, plot |-> FALSE]
    /\ listing = <<>>
    /\ sent = <<>>
    /\ results = <<>>
    /\ data = <<>>
    /\ rows = <<>>
    /\ out = <<>>
    /\ chart = <<>>
    /\ err = "none"

InitDate ==
    /\ pc = "call"
    /\ arg \in DateArgs
    /\ ret = NoDate
    /\ Idle

CallParseDate ==
    /\ pc = "call"
    /\ ret' = parse_date_yyyy_mm_dd(arg)
    /\ pc' = "ret"
    /\ UNCHANGED <<args, listing, sent, results, data, rows, out, chart, err, arg>>

SpecDate == InitDate /\ [][CallParseDate]_vars

\* The calendar, stated by day of the month
ValidYMD(y, m, d) ==
    /\ y \in 1..9999
    /\ m \in 1..12
    /\ d >= 1
    /\ \/ d <= 28
       \/ d = 29 /\ (m # 2 \/ y % 400 = 0 \/ (y % 4 = 0 /\ y % 100 # 0))
       \/ d = 30 /\ m # 2
       \/ d = 31 /\ m \in {1, 3, 5, 7, 8, 10, 12}

TheDate(y, m, d) == [ok |-> TRUE, y |-> y, m |-> m, d |-> d]

\* C2 as stated: the date parser tries several layouts and accepts
\* "2026-01-19", "01/19/2026" and "Wed, Nov 06, 2019", each yielding its
\* calendar date, and returns 'unparseable' for "not-a-date".
C2_AsStated ==
    pc = "ret" =>
        /\ arg = PyStr(T_2026_01_19) => ret = TheDate(2026, 1, 19)
        /\ arg = PyStr(T_01_19_2026) => ret = TheDate(2026, 1, 19)
        /\ arg = PyStr(T_Wed_Nov_06_2019) => ret = TheDate(2019, 11, 6)
        /\ arg = PyStr(T_not_a_date) => ret = NoDate

\* C2 amended: the date parser knows one layout, year-month-day separated
\* by "-".  It returns the calendar date exactly when the text splits at "-"
\* into three integers that name a day of the calendar (years 1 to 9999),
\* and 'unparseable' otherwise: "2026-01-19" is accepted; "01/19/2026",
\* "Wed, Nov 06, 2019", "not-a-date" and every value that is not a string
\* are unparseable.
C2_DateParser ==
    pc = "ret" =>
        /\ arg = PyStr(T_2026_01_19) => ret = TheDate(2026, 1, 19)
        /\ arg \in {PyStr(T_01_19_2026), PyStr(T_Wed_Nov_06_2019), PyStr(T_not_a_date)}
               => ret = NoDate
        /\ ~IsStr(arg) => ret = NoDate
        /\ \A y \in YearLits, m \in MonthLits, d \in DayLits, s1 \in Seps, s2 \in Seps :
               arg = PyStr(Joined(y, s1, m, s2, d)) =>
                   ret = IF /\ s1 = "-" /\ s2 = "-"
                            /\ y.ok /\ m.ok /\ d.ok
                            /\ ValidYMD(y.val, m.val, d.val)
                         THEN TheDate(y.val, m.val, d.val)
                         ELSE NoDate

C2_Witness == pc = "ret" /\ arg = PyStr(T_2026_01_19) /\ ret = TheDate(2026, 1, 19)

(***************************************************************************)
(* normalize_amount on its own.  Each amount text is listed with the       *)
(* number it is once surrounding blanks and one leading "$" are taken off  *)
(* (ok, val, in hundredths), and with the number it is once every currency *)
(* symbol is taken off (cok, cval).                                        *)
(***************************************************************************)
AmountLit(text, ok, val, cok, cval) ==
    [text |-> text, ok |-> ok, val |-> val, cok |-> cok, cval |-> cval]

AmountLits ==
    { AmountLit(T_usd_12_50, TRUE, 1250, TRUE, 1250),
      AmountLit(<<"1", "2", ".", "5">>, TRUE, 1250, TRUE, 1250),
      AmountLit(<<" ", "$", " ", "7", " ">>, TRUE, 700, TRUE, 700),
      AmountLit(<<"7">>, TRUE, 700, TRUE, 700),
      AmountLit(<<"-", "3", ".", "2", "0">>, TRUE, 0 - 320, TRUE, 0 - 320),
      AmountLit(<<"$", "-", "3">>, TRUE, 0 - 300, TRUE, 0 - 300),
      AmountLit(<<"+", ".", "5">>, TRUE, 50, TRUE, 50),
      AmountLit(<<"1", "2", ".">>, TRUE, 1200, TRUE, 1200),
      AmountLit(<<"1", "_", "0">>, TRUE, 1000, TRUE, 1000),
      AmountLit(T_abc, FALSE, 0, FALSE, 0),
      AmountLit(<<>>, FALSE, 0, FALSE, 0),
      AmountLit(<<"$">>, FALSE, 0, FALSE, 0),
      AmountLit(<<"$", " ">>, FALSE, 0, FALSE, 0),
      AmountLit(<<".">>, FALSE, 0, FALSE, 0),
      AmountLit(<<"1", ".", "2", ".", "3">>, FALSE, 0, FALSE, 0),
      AmountLit(<<"1", ",", "0", "0", "0">>, FALSE, 0, FALSE, 0),
      AmountLit(<<"$", "1", " ", "0">>, FALSE, 0, FALSE, 0),
      AmountLit(<<"$", "$", "5">>, FALSE, 0, TRUE, 500),
      AmountLit(<<"1", "2", ".", "5", "0", "$">>, FALSE, 0, TRUE, 1250),
      AmountLit(<<"EUR", "1", "2", ".", "5", "0">>, FALSE, 0, TRUE, 1250) }

AmountValues ==
    { PyStr(l.text) : l \in AmountLits }
    \cup { PyNone, PyInt(10), PyFloat(1250), PyBool(TRUE), PyList }

NormArgs ==
    { Dict4(d, a, v, c) :
          d \in {PyNone, PyStr(T_2026_01_15)}, a \in AmountValues,
          v \in {PyNone, PyStr(T_x)}, c \in {PyNone, PyStr(T_Meals)} }
    \cup { [date |-> PyStr(T_2026_01_15), vendor |-> PyStr(T_x)] }
    \cup { [amount |-> a, tax |-> PyStr(T_usd_12_50)] : a \in AmountValues }

InitNorm ==
    /\ pc = "call"
    /\ arg \in NormArgs
    /\ ret = <<>>
    /\ Idle

CallNormalize ==
    /\ pc = "call"
    /\ ret' = normalize_amount(arg)
    /\ pc' = "ret"
    /\ UNCHANGED <<args, listing, sent, results, data, rows, out, chart, err, arg>>

SpecNorm == InitNorm /\ [][CallNormalize]_vars

\* What both readings of C3 share: the record keeps its keys and every field
\* but amount; an absent or None amount and an amount that is not a string
\* (a number already) stay as they are.
NormFrame ==
    /\ DOMAIN ret = DOMAIN arg
    /\ \A k \in DOMAIN arg \ {"amount"} : ret[k] = arg[k]
    /\ "amount" \in DOMAIN arg /\ ~IsStr(arg.amount) => ret.amount = arg.amount

\* C3 as stated: normalize_amount strips currency symbols from a string
\* amount and replaces it by its numeric value whenever the remainder is a
\* number; a numeric amount, an unconvertible string and an absent or None
\* amount are left unchanged; no other field changes.
C3_AsStated ==
    pc = "ret" =>
        /\ NormFrame
        /\ \A l \in AmountLits :
               "amount" \in DOMAIN arg /\ arg.amount = PyStr(l.text) =>
                   ret.amount = IF l.cok THEN PyFloat(l.cval) ELSE arg.amount

\* C3 amended: normalize_amount takes surrounding blanks and one leading "$"
\* off a string amount and replaces the amount by the number left whenever
\* what is left is a decimal number ("$12.50" becomes 12.50); any other
\* currency symbol, a second "$" or a "$" elsewhere leaves the string
\* unchanged, as "abc" does; a numeric, absent or None amount is left as it
\* was; no other field of the record is changed.
C3_NormalizeAmount ==
    pc = "ret" =>
        /\ NormFrame
        /\ \A l \in AmountLits :
               "amount" \in DOMAIN arg /\ arg.amount = PyStr(l.text) =>
                   ret.amount = IF l.ok THEN PyFloat(l.val) ELSE arg.amount

C3_Witness ==
    /\ pc = "ret"
    /\ arg = Dict4(PyStr(T_2026_01_15), PyStr(T_usd_12_50), PyStr(T_x), PyStr(T_Meals))
    /\ ret = Dict4(PyStr(T_2026_01_15), PyFloat(1250), PyStr(T_x), PyStr(T_Meals))

(***************************************************************************)
(* filter_expenses on a results collection drawn at large: the run is      *)
(* taken up where process_directory has returned and --expenses is next.   *)
(* Each date text is listed with the day it names (num: yyyymmdd, iso: its *)
(* ISO text), each range with the days its ends name.                      *)
(***************************************************************************)
DateLit(text, ok, num, iso) == [text |-> text, ok |-> ok, num |-> num, iso |-> iso]

RecordDateLits ==
    { DateLit(T_01_19_2026, FALSE, 0, <<>>),
      DateLit(T_2025_12_31, TRUE, 20251231, T_2025_12_31),
      DateLit(T_2026_01_01, TRUE, 20260101, T_2026_01_01),
      DateLit(T_2026_1_5, TRUE, 20260105, T_2026_01_05),
      DateLit(T_2026_01_31, TRUE, 20260131, T_2026_01_31),
      DateLit(T_2026_02_01, TRUE, 20260201, T_2026_02_01) }

RangeLit(s, e, sok, snum, eok, enum) ==
    [s |-> s, e |-> e, sok |-> sok, snum |-> snum, eok |-> eok, enum |-> enum]

RangeLits ==
    { RangeLit(T_2026_01_01, T_2026_01_31, TRUE, 20260101, TRUE, 20260131),
      RangeLit(T_2026_01_31, T_2026_01_01, TRUE, 20260131, TRUE, 20260101),
      RangeLit(T_2026_1_5, T_2026_02_01, TRUE, 20260105, TRUE, 20260201),
      RangeLit(T_01_19_2026, T_2026_01_31, FALSE, 0, TRUE, 20260131),
      RangeLit(T_2026_01_01, T_2026_02_30, TRUE, 20260101, FALSE, 0),
      RangeLit(T_not_a_date, T_Wed_Nov_06_2019, FALSE, 0, FALSE, 0) }

\* Rank of a filename in string order: "a" < "ab" < "b"
NameRank(f) == IF f = <<"a">> THEN 1 ELSE IF f = <<"a", "b">> THEN 2 ELSE 3

\* Listings in ascending or descending name order
OrderedListings ==
    { l \in Listings :
          \/ \A i \in 1..(Len(l) - 1) : NameRank(l[i]) < NameRank(l[i + 1])
          \/ \A i \in 1..(Len(l) - 1) : NameRank(l[i]) > NameRank(l[i + 1]) }

FilterReplies ==
    { Dict4(d, a, PyNone, c) :
          d \in {PyNone} \cup { PyStr(l.text) : l \in RecordDateLits },
          a \in {PyInt(10), PyStr(T_usd_12_50), PyStr(T_abc), PyBool(TRUE)},
          c \in {PyStr(T_Meals)} }

\* The collection process_directory builds from one reply per listed file;
\* the vendor of a reply is set to the file's own name, to tell records apart.
Collected(l, replies) ==
    [ i \in 1..Len(l) |->
        <<l[i], normalize_amount([replies[i] EXCEPT !.vendor = PyStr(l[i])])>> ]

\* The state of a run of main whose extraction has gone through
Extracted(l, d) ==
    /\ listing = l
    /\ sent = [i \in 1..Len(l) |-> [name |-> l[i], kind |-> "json"]]
    /\ results = d
    /\ data = d
    /\ rows = <<>>
    /\ out = <<>>
    /\ chart = <<>>
    /\ err = "none"
    /\ arg = <<>>
    /\ ret = <<>>

InitFilter ==
    /\ pc = "expenses"
    /\ \E r \in RangeLits : args = [print |-> FALSE, expenses |-> <<r.s, r.e>>, plot |-> FALSE]
    /\ \E l \in OrderedListings :
          \E replies \in [1..Len(l) -> FilterReplies] : Extracted(l, Collected(l, replies))

SpecFilter == InitFilter /\ [][ExpensesStage]_vars

\* The range and the date literals a state's texts stand for
RangeOf == CHOOSE r \in RangeLits : args.expenses = <<r.s, r.e>>

DateLitOf(rec) ==
    IF IsStr(Get(rec, "date")) /\ \E l \in RecordDateLits : l.text = Get(rec, "date").s
    THEN CHOOSE l \in RecordDateLits : l.text = Get(rec, "date").s
    ELSE DateLit(<<>>, FALSE, 0, <<>>)

\* A number, as JSON has them: an int or a float, not true or false
IsNumber(v) == v.t \in {"int", "float"}

Hundredths(v) == IF v.t = "int" THEN 100 * v.n ELSE v.n

RecordOf(fname) == data[CHOOSE i \in 1..Len(data) : data[i][1] = fname][2]

RowNames == { rows[j][1] : j \in 1..Len(rows) }

\* C1: with two valid dates, filter_expenses returns a row for a record if
\* and only if its date is parseable, its amount is numeric and
\* start <= date <= end, ends included; the other records are left out
\* without an error; each row carries the record's filename, ISO date,
\* amount, vendor and category.
C1_FilterIff ==
    (pc # "expenses" /\ RangeOf.sok /\ RangeOf.eok) =>
        /\ err = "none"
        /\ \A i \in 1..Len(data) :
               LET fname == data[i][1]
                   rec == data[i][2]
                   dl == DateLitOf(rec)
               IN /\ fname \in RowNames <=>
                          /\ dl.ok
                          /\ IsNumber(Get(rec, "amount"))
                          /\ RangeOf.snum <= dl.num /\ dl.num <= RangeOf.enum
                  /\ \A j \in 1..Len(rows) :
                         rows[j][1] = fname =>
                             rows[j] = << fname, dl.iso, Hundredths(Get(rec, "amount")),
                                          Get(rec, "vendor"), Get(rec, "category") >>

\* C4: the rows filter_expenses returns are in ascending order of (date,
\* filename): of two consecutive rows the first has the earlier day, or the
\* same day and a filename that is not greater; and the rows are a
\* permutation of the kept records.
C4_SortedPermutation ==
    (pc = "plot" /\ args.expenses # <<>>) =>
        LET kept == KeptRows(data, parse_date_yyyy_mm_dd(PyStr(args.expenses[1])),
                             parse_date_yyyy_mm_dd(PyStr(args.expenses[2])))
            day(j) == DateLitOf(RecordOf(rows[j][1])).num
        IN /\ \A j \in 1..(Len(rows) - 1) :
                  \/ day(j) < day(j + 1)
                  \/ day(j) = day(j + 1) /\ NameRank(rows[j][1]) <= NameRank(rows[j + 1][1])
           /\ Len(rows) = Len(kept)
           /\ \A j \in 1..Len(kept) : \E k \in 1..Len(rows) : rows[k] = kept[j]
           /\ \A j, k \in 1..Len(rows) : rows[j] = rows[k] => j = k

\* Two rows come back in the opposite order of their insertion
C4_Witness ==
    /\ pc = "plot"
    /\ Len(rows) = 2
    /\ Len(data) = 2
    /\ rows[1][1] = data[2][1]
    /\ rows[2][1] = data[1][1]
    /\ rows[1][2] # rows[2][2]

\* C7: filter_expenses raises the value error whenever the start or the end
\* date string is not a parseable calendar date, whatever the records, and
\* then returns no rows and no ledger is printed; with two valid date
\* strings it does not raise it.
C7_BadDatesRaise ==
    (pc # "expenses" /\ args.expenses # <<>>) =>
        /\ err = "ValueError: dates" <=> ~(RangeOf.sok /\ RangeOf.eok)
        /\ err = "ValueError: dates" => pc = "failed" /\ rows = <<>> /\ out = <<>>

C7_Witness ==
    /\ pc = "failed"
    /\ err = "ValueError: dates"
    /\ RangeOf.sok /\ ~RangeOf.eok
    /\ Len(data) = 2

(***************************************************************************)
(* plot_by_category on a results collection drawn at large: the run is     *)
(* taken up where --plot is next.                                          *)
(***************************************************************************)
PlotReplies ==
    { Dict4(PyStr(T_2026_01_15), a, PyNone, c) :
          a \in {PyInt(10), PyInt(20), PyStr(T_usd_12_50), PyStr(T_abc), PyNone, PyBool(TRUE)},
          c \in {PyNone, PyStr(<<>>), PyStr(T_blank), PyStr(T_Meals),
                 PyStr(T_Meals_padded), PyStr(T_Other), PyList} }

InitPlot ==
    /\ pc = "plot"
    /\ args = [print |-> FALSE, expenses |-> <<>>, plot |-> TRUE]
    /\ \E l \in OrderedListings :
          \E replies \in [1..Len(l) -> PlotReplies] : Extracted(l, Collected(l, replies))

SpecPlot == InitPlot /\ [][PlotStage]_vars

HasCategory(rec, c) == IsNumber(Get(rec, "amount")) /\ Get(rec, "category") = PyStr(c)

\* A numeric amount and a category string that is not empty
Plottable(rec) ==
    /\ IsNumber(Get(rec, "amount"))
    /\ IsStr(Get(rec, "category"))
    /\ Get(rec, "category").s # <<>>

\* The amounts of the records with a numeric amount and category c, summed
RECURSIVE SumCategory(_, _)
SumCategory(items, c) ==
    IF items = <<>> THEN 0
    ELSE (IF HasCategory(Head(items)[2], c)
          THEN Hundredths(Get(Head(items)[2], "amount")) ELSE 0)
         + SumCategory(Tail(items), c)

RECURSIVE SumPlottable(_)
SumPlottable(items) ==
    IF items = <<>> THEN 0
    ELSE (IF Plottable(Head(items)[2])
          THEN Hundredths(Get(Head(items)[2], "amount")) ELSE 0)
         + SumPlottable(Tail(items))

RECURSIVE SumTotals(_)
SumTotals(sums) == IF sums = <<>> THEN 0 ELSE Head(sums)[2] + SumTotals(Tail(sums))

CategoryTexts == {<<>>, T_blank, T_Meals, T_Meals_padded, T_Other}

\* C5: the aggregator groups the records by category string and sums their
\* amounts: every category's total is the sum of the amounts of exactly the
\* records with a numeric amount and that non-empty category string; a
\* record whose category is None or empty, or whose amount is not numeric,
\* contributes to no total.
C5_CategoryTotals ==
    (pc = "done" /\ args.plot) =>
        /\ \A c \in CategoryTexts \ {<<>>} :
               DictGet0(chart, c) = SumCategory(data, c)
        /\ SumTotals(chart) = SumPlottable(data)

\* C8: plot_by_category fails with the value error if and only if no record
\* has both a numeric amount and a non-empty category string; when it fails
\* no chart is written and 'Saved plot' is not printed.
C8_NoDataRaises ==
    (pc \in {"done", "failed"} /\ args.plot) =>
        /\ err = "ValueError: plot" <=> ~\E i \in 1..Len(data) : Plottable(data[i][2])
        /\ err = "ValueError: plot" => chart = <<>> /\ out = <<>>

(***************************************************************************)
(* The run of main as a whole (Spec).                                      *)
(***************************************************************************)
FailKinds == {"unreachable", "rejected", "badjson"}

ErrorOf(kind) ==
    IF kind = "unreachable" THEN "APIConnectionError"
    ELSE IF kind = "rejected" THEN "APIStatusError"
    ELSE "JSONDecodeError"

\* C6: when the extraction fails for a file (service unreachable, request
\* rejected, or a reply that is not valid JSON) the error is neither caught
\* nor retried: the failed call is the last call made, each listed file was
\* sent at most once and in listing order, the run has ended with that
\* error, no results collection was returned and no output (JSON dump,
\* ledger, chart) was produced.
C6_ExtractionAborts ==
    /\ Len(sent) <= Len(listing)
    /\ \A i \in 1..Len(sent) : sent[i].name = listing[i]
    /\ \A i \in 1..Len(sent) :
           sent[i].kind \in FailKinds =>
               /\ i = Len(sent)
               /\ pc = "failed"
               /\ err = ErrorOf(sent[i].kind)
               /\ results = <<>>
               /\ data = <<>>
               /\ rows = <<>>
               /\ out = <<>>
               /\ chart = <<>>

\* The first file of two fails: the second is never sent
C6_Witness ==
    /\ Len(listing) = 2
    /\ Len(sent) = 1
    /\ sent[1].kind = "badjson"
    /\ pc = "failed"
    /\ err = "JSONDecodeError"

FourFields == {"date", "amount", "vendor", "category"}

\* C9: every record the extraction client returns, and so every record
\* process_directory stores in the results collection, has exactly the four
\* fields date, amount, vendor and category, whatever JSON the service
\* returned without the client raising.
C9_FourFields ==
    /\ \A i \in 1..Len(results) : DOMAIN results[i][2] = FourFields
    /\ \A i \in 1..Len(data) : DOMAIN data[i][2] = FourFields

Kinds == [i \in 1..Len(out) |-> out[i].kind]

WantJson == IF args.print THEN <<"json">> ELSE <<>>
WantLedger == IF args.expenses # <<>> THEN <<"ledger">> ELSE <<>>
WantSaved == IF args.plot THEN <<"saved">> ELSE <<>>

\* C10: in a run of main every file of the directory is extracted before
\* any output is produced; the requested outputs then come in the order
\* JSON dump, expense ledger, chart; an error in a later stage (bad
\* --expenses dates, nothing to plot, a ledger row that cannot be printed)
\* leaves the earlier outputs as they were emitted and keeps every later
\* stage from running.
C10_StageOrder ==
    /\ (out # <<>> \/ chart # <<>>) =>
           /\ Len(sent) = Len(listing)
           /\ \A i \in 1..Len(sent) : sent[i].kind = "json"
           /\ [i \in 1..Len(data) |-> data[i][1]] = listing
    /\ pc \in {"extract", "print"} => Kinds = <<>>
    /\ pc = "expenses" => Kinds = WantJson
    /\ pc = "plot" => Kinds = WantJson \o WantLedger
    /\ pc = "done" => Kinds = WantJson \o WantLedger \o WantSaved
    /\ args.print /\ out # <<>> => out[1] = [kind |-> "json", body |-> data, total |-> 0]
    /\ chart # <<>> <=> (pc = "done" /\ args.plot)
    /\ err = "ValueError: dates" => pc = "failed" /\ Kinds = WantJson
    /\ err = "TypeError" => pc = "failed" /\ Kinds = WantJson \o <<"ledger_cut">>
    /\ err = "ValueError: plot" => pc = "failed" /\ Kinds = WantJson \o WantLedger
    /\ pc = "failed" <=> err # "none"

\* Nothing to plot after the JSON dump and the ledger have been printed
C10_Witness ==
    /\ pc = "failed"
    /\ err = "ValueError: plot"
    /\ Kinds = <<"json", "ledger">>
    /\ Len(data) = 2

====
